---- MODULE Spec2Model ----
(***************************************************************************)
(* SummarAIze backend (backend/src/server.ts, the Auth0-protected          *)
(* version): the checkJwtJose middleware followed by the POST              *)
(* /api/summarize handler with its Gemini -> OpenAI -> demo fallback.      *)
(*                                                                         *)
(* A request is what express.json() hands to the route: the Authorization  *)
(* header and the parsed body.  One step of the model is one synchronous   *)
(* run of JavaScript between two awaits.                                   *)
(***************************************************************************)
EXTENDS Integers, Sequences, FiniteSets, TLC

VARIABLES
    env,         \* process.env as read at start-up (read-only afterwards)
    zodQuoted,   \* whether the installed zod renders an issue path as `at "text"`
    pc,          \* per request: where its middleware/handler is suspended
    hdr,         \* per request: req.headers.authorization
    body,        \* per request: req.body
    auth,        \* per request: (req as any).auth, set after jwtVerify
    parsed,      \* per request: Body.parse(req.body) has been executed
    calls,       \* per request: adapter invocations, in order
    results,     \* per request: what each adapter invocation came back with
    responses,   \* per request: the responses sent with res.json, in order
    \* -- the page (frontend/app/page.tsx, the Auth0 version) --
    mounted,         \* the page is loaded (FALSE while the browser is at Auth0)
    textarea,        \* useState text
    shownSummary,    \* useState summary
    loading,         \* useState loading
    shownError,      \* useState error ("" is null)
    isAuthenticated, \* useAuth0().isAuthenticated
    authLoading,     \* useAuth0().isLoading
    lsText,          \* localStorage "summarize:text" ("" when absent)
    lsResume,        \* localStorage "summarize:resume" ("" when absent)
    apiBase,         \* process.env.NEXT_PUBLIC_API_BASE ?? ""
    tasks,           \* the doSummarize calls in flight, oldest first
    posts            \* the POSTs sent to /summarize so far

serverVars == <<env, zodQuoted, pc, hdr, body, auth, parsed, calls, results, responses>>

clientVars ==
    <<mounted, textarea, shownSummary, loading, shownError, isAuthenticated, authLoading,
      lsText, lsResume, apiBase, tasks, posts>>

vars == <<serverVars, clientVars>>

(* ------------------------------ bounds --------------------------------- *)

\* longest text an adapter hands back in the model
MaxSummaryLen == 2

(* ----------------------------- constants ------------------------------- *)

\* z.string().min(1).max(20000)
MinChars == 1
MaxChars == 20000

\* const MAX_CHARS = 20000 of the page
MAX_CHARS == 20000

Requests == {"r1"}

(* ------------------------------- strings ------------------------------- *)

\* Characters of an adapter's output: one blank, one non-blank.
Chars == {" ", "a"}

RECURSIVE SeqsUpTo(_)
SeqsUpTo(n) ==
    IF n = 0 THEN {<<>>}
    ELSE LET shorter == SeqsUpTo(n - 1)
         IN  shorter \cup {Append(s, c) : s \in {t \in shorter : Len(t) = n - 1}, c \in Chars}

Strings == SeqsUpTo(MaxSummaryLen)

RECURSIVE TrimStart(_)
TrimStart(s) ==
    IF s # <<>> /\ Head(s) = " " THEN TrimStart(Tail(s)) ELSE s

RECURSIVE TrimEnd(_)
TrimEnd(s) ==
    IF s # <<>> /\ s[Len(s)] = " " THEN TrimEnd(SubSeq(s, 1, Len(s) - 1)) ELSE s

\* String.prototype.trim
Trim(s) == TrimEnd(TrimStart(s))

\* An error message, as far as the code looks at it: the phrases it contains.
QuotaPhrase == "exceeded your current quota"

\* msg.includes(phrase)
Includes(msg, phrase) == phrase \in msg

(* ---------------------------- configuration ---------------------------- *)

\* The environments the process can be started in ("" is an unset variable).
Envs ==
    [AUTH0_DOMAIN   : {"", "dev-xxx.us.auth0.com"},
     AUTH0_AUDIENCE : {"", "https://summaraize.api"},
     GEMINI_API_KEY : {"", "gemini-key"},
     OPENAI_API_KEY : {"", "openai-key"},
     GEMINI_MODEL   : {"", "gemini-2.5-flash-lite"}]

GEMINI_MODEL == IF env.GEMINI_MODEL # "" THEN env.GEMINI_MODEL ELSE "gemini-2.0-flash"

OPENAI_MODEL == "gpt-4o-mini"

AUTH0_DOMAIN == env.AUTH0_DOMAIN

AUTH0_AUDIENCE == env.AUTH0_AUDIENCE

\* `https://${AUTH0_DOMAIN}/` or "" (the empty sequence of fragments)
ISSUER == IF AUTH0_DOMAIN # "" THEN <<"https://", AUTH0_DOMAIN, "/">> ELSE <<>>

\* createRemoteJWKSet(...) or null
JWKS ==
    IF AUTH0_DOMAIN # ""
    THEN [isNull |-> FALSE, url |-> ISSUER \o <<".well-known/jwks.json">>]
    ELSE [isNull |-> TRUE, url |-> <<>>]

(* ------------------------------- requests ------------------------------ *)

\* An Authorization header value is a sequence of words and single blanks.
Good == "token-good"   \* a token jwtVerify accepts for ISSUER and AUTH0_AUDIENCE
Bad  == "token-bad"    \* any other token: bad signature, issuer, audience, expired

HeaderValues ==
    { <<>>,
      <<"Bearer">>,
      <<"Bearer", " ">>,
      <<"Bearer", " ", Good>>,
      <<"bearer", " ", Good>>,
      <<"BEARER", " ", Bad>>,
      <<"Bearer", " ", Bad>>,
      <<"Basic", " ", Good>>,
      <<"Bearer", " ", " ", Good>>,
      <<Good>> }

\* req.headers.authorization: undefined when the header is absent
Headers ==
    {[present |-> FALSE, value |-> <<>>]} \cup {[present |-> TRUE, value |-> v] : v \in HeaderValues}

\* The lengths of text the model sends: both sides of both limits.
TextLengths == {0, MinChars, 5, MaxChars, MaxChars + 1}

\* req.body after express.json(): a JSON array, or an object whose text field
\* is absent, a number or a string of some length.
Bodies ==
    {[isObject |-> FALSE, type |-> "undefined", length |-> 0],
     [isObject |-> TRUE, type |-> "undefined", length |-> 0],
     [isObject |-> TRUE, type |-> "number", length |-> 0]}
    \cup {[isObject |-> TRUE, type |-> "string", length |-> n] : n \in TextLengths}

(* ------------------------- auth: checkJwtJose -------------------------- *)

\* String.prototype.split(" "): the words between the blanks; two adjacent
\* blanks, or a blank at either end, give an empty word "".
RECURSIVE SplitFrom(_, _)
SplitFrom(s, word) ==
    IF s = <<>> THEN <<word>>
    ELSE IF Head(s) = " " THEN <<word>> \o SplitFrom(Tail(s), "")
    ELSE SplitFrom(Tail(s), Head(s))

Split(s) == SplitFrom(s, "")

\* String.prototype.toLowerCase on the words of the model
ToLowerCase(w) ==
    CASE w \in {"Bearer", "BEARER", "bearer"} -> "bearer"
      [] w = "Basic" -> "basic"
      [] OTHER -> w

\* const auth = req.headers.authorization || ""
AuthHeader(r) == IF hdr[r].present THEN hdr[r].value ELSE <<>>

\* const [scheme, token] = auth.split(" ")  ("" stands for undefined too: both
\* are falsy and neither lower-cases to "bearer")
Scheme(a) == Split(a)[1]

Token(a) == IF Len(Split(a)) >= 2 THEN Split(a)[2] ELSE ""

\* if (!JWKS || !AUTH0_AUDIENCE || !ISSUER)
AuthNotConfiguredNoAudience == JWKS.isNull \/ ISSUER = <<>>

AuthNotConfigured == JWKS.isNull \/ AUTH0_AUDIENCE = "" \/ ISSUER = <<>>

\* if (scheme?.toLowerCase() !== "bearer" || !token)
BearerRejectedAnd(a) == ToLowerCase(Scheme(a)) # "bearer" /\ Token(a) = ""

BearerRejected(a) == ToLowerCase(Scheme(a)) # "bearer" \/ Token(a) = ""

\* function unauthorized(res, detail)
Unauthorized(detail) ==
    [status |-> 401, body |-> [error |-> "Unauthorized", detail |-> detail]]

\* The messages jose's jwtVerify rejects with.
JwtErrors == {"signature verification failed", "\"exp\" claim timestamp check failed", "fetch failed"}


(* --------------------------- validation (zod) -------------------------- *)

\* Body.parse(req.body): the issues zod raises, each with its code and path.
ZodIssues(b) ==
    IF ~b.isObject THEN {[code |-> "invalid_type", path |-> <<>>]}
    ELSE IF b.type # "string" THEN {[code |-> "invalid_type", path |-> <<"text">>]}
    ELSE IF b.length < MinChars THEN {[code |-> "too_small", path |-> <<"text">>]}
    ELSE IF b.length > MaxChars THEN {[code |-> "too_big", path |-> <<"text">>]}
    ELSE {}

\* ZodError.message, as the phrases it contains.  zod renders the issues as
\* JSON ("path": ["text"]); only a renderer that writes the path as `at "text"`
\* yields the phrase the handler looks for, and never for an issue at the root.
ZodMessage(issues) ==
    IF zodQuoted /\ \E i \in issues : i.path = <<"text">> THEN {"at \"text\""} ELSE {}

(* ------------------------------ responses ------------------------------ *)

Send(r, resp) == responses' = [responses EXCEPT ![r] = Append(@, resp)]

Invoke(r, adapter, model) ==
    calls' = [calls EXCEPT ![r] = Append(@, [adapter |-> adapter, model |-> model,
                                             length |-> body[r].length])]

\* res.json({ summary, provider: "gemini", model: GEMINI_MODEL })
GeminiSuccess(summary) ==
    [status |-> 200,
     body |-> [summary |-> summary, provider |-> "gemini", model |-> GEMINI_MODEL]]

\* res.json({ summary, provider: "openai", model: "gpt-4o-mini" })
OpenAISuccess(summary) ==
    [status |-> 200,
     body |-> [summary |-> summary, provider |-> "openai", model |-> OPENAI_MODEL]]

\* DemoSummary naming the default model instead of GEMINI_MODEL.
DemoSummaryDefaultModel(text) ==
    << "(Demo) No AI provider responded\n",
       "Gemini model tried: ", "gemini-2.0-flash", "\n",
       "Tip: set GEMINI_API_KEY (AI Studio) with gemini-2.0-flash\n",
       "Or add OPENAI_API_KEY (with quota)\n",
       "Input length: ", ToString(text.length), " chars" >>

\* The demo summary, as the fragments the template literal joins.
DemoSummary(text) ==
    << "(Demo) No AI provider responded\n",
       "Gemini model tried: ", GEMINI_MODEL, "\n",
       "Tip: set GEMINI_API_KEY (AI Studio) with gemini-2.0-flash\n",
       "Or add OPENAI_API_KEY (with quota)\n",
       "Input length: ", ToString(text.length), " chars" >>

\* DemoResponse without its provider field.
DemoResponseNoProvider(text) ==
    [status |-> 200, body |-> [summary |-> DemoSummary(text)]]

\* res.status(200).json({ summary: ..., provider: "demo" })
DemoResponse(text) ==
    [status |-> 200, body |-> [summary |-> DemoSummary(text), provider |-> "demo"]]

QuotaResponse ==
    [status |-> 429,
     body |-> [error |-> "OpenAI quota exceeded. Check plan/billing or use Gemini.",
               provider |-> "openai"]]

MisconfiguredResponse ==
    [status |-> 400,
     body |-> [error |-> "Gemini model unavailable. Use 'gemini-2.0-flash' or 'gemini-2.5-flash-lite' and ensure Generative Language API is enabled.",
               provider |-> "gemini", model |-> GEMINI_MODEL]]

ValidationResponse ==
    [status |-> 400,
     body |-> [error |-> "Invalid body. Provide non-empty 'text' <= 20,000 chars."]]

InternalResponse ==
    [status |-> 500, body |-> [error |-> "Unexpected server error. Check server logs."]]

\* } catch (err) { ... }  of the handler
OuterCatchResponse(msg) ==
    IF Includes(msg, "ListModels") \/ Includes(msg, "404 Not Found")
       \/ Includes(msg, "models/gemini-pro")
    THEN MisconfiguredResponse
    ELSE IF Includes(msg, "at \"text\"") THEN ValidationResponse
    ELSE InternalResponse

(* ------------------------- the summarize handler ----------------------- *)
\* Each block below says what becomes of pc, calls and responses.

\* Demo response (no working providers)
DemoBlock(r) ==
    /\ Send(r, DemoResponse(body[r]))
    /\ pc' = [pc EXCEPT ![r] = "done"]
    /\ UNCHANGED calls

\* if (process.env.OPENAI_API_KEY) { try { await openai.chat.completions.create(...)
OpenAIBlock(r) ==
    IF env.OPENAI_API_KEY # ""
    THEN /\ Invoke(r, "openai", OPENAI_MODEL)
         /\ pc' = [pc EXCEPT ![r] = "openai"]
         /\ UNCHANGED responses
    ELSE DemoBlock(r)

\* GeminiBlock behind a shared busy flag: Gemini is skipped while another
\* request's Gemini call is in flight.
GeminiBlockBusy(r) ==
    IF env.GEMINI_API_KEY # "" /\ \A q \in DOMAIN pc : pc[q] # "gemini"
    THEN /\ Invoke(r, "gemini", GEMINI_MODEL)
         /\ pc' = [pc EXCEPT ![r] = "gemini"]
         /\ UNCHANGED responses
    ELSE OpenAIBlock(r)

\* GeminiBlock that starts both provider calls at once when both are configured.
GeminiBlockParallel(r) ==
    IF env.GEMINI_API_KEY # "" /\ env.OPENAI_API_KEY # ""
    THEN /\ calls' = [calls EXCEPT ![r] =
                @ \o << [adapter |-> "gemini", model |-> GEMINI_MODEL, length |-> body[r].length],
                        [adapter |-> "openai", model |-> OPENAI_MODEL, length |-> body[r].length] >>]
         /\ pc' = [pc EXCEPT ![r] = "gemini"]
         /\ UNCHANGED responses
    ELSE IF env.GEMINI_API_KEY # ""
    THEN /\ Invoke(r, "gemini", GEMINI_MODEL)
         /\ pc' = [pc EXCEPT ![r] = "gemini"]
         /\ UNCHANGED responses
    ELSE OpenAIBlock(r)

\* if (process.env.GEMINI_API_KEY) { try { await model.generateContent(prompt)
GeminiBlock(r) ==
    IF env.GEMINI_API_KEY # ""
    THEN /\ Invoke(r, "gemini", GEMINI_MODEL)
         /\ pc' = [pc EXCEPT ![r] = "gemini"]
         /\ UNCHANGED responses
    ELSE OpenAIBlock(r)

\* try { const { text } = Body.parse(req.body); ...
HandlerStart(r) ==
    IF ZodIssues(body[r]) # {}
    THEN /\ Send(r, OuterCatchResponse(ZodMessage(ZodIssues(body[r]))))
         /\ pc' = [pc EXCEPT ![r] = "done"]
         /\ UNCHANGED calls
    ELSE GeminiBlock(r)

\* OpenAICatch that ends the handler without a response when the error is not
\* a quota error.
OpenAICatchSilent(r, msg) ==
    IF Includes(msg, QuotaPhrase)
    THEN /\ Send(r, QuotaResponse)
         /\ pc' = [pc EXCEPT ![r] = "done"]
         /\ UNCHANGED calls
    ELSE /\ pc' = [pc EXCEPT ![r] = "done"]
         /\ UNCHANGED <<calls, responses>>

\* } catch (oerr) { ... }  of the OpenAI block
OpenAICatch(r, msg) ==
    IF Includes(msg, QuotaPhrase)
    THEN /\ Send(r, QuotaResponse)
         /\ pc' = [pc EXCEPT ![r] = "done"]
         /\ UNCHANGED calls
    ELSE DemoBlock(r)

\* What an adapter call can come back with.
ErrorMessages == {{}, {QuotaPhrase}, {"ListModels", "404 Not Found"}, {"models/gemini-pro"}}

Returned(adapter, hasContent, text) ==
    [adapter |-> adapter, kind |-> "return", hasContent |-> hasContent,
     text |-> text, message |-> {}]

Threw(adapter, msg) ==
    [adapter |-> adapter, kind |-> "throw", hasContent |-> FALSE,
     text |-> <<>>, message |-> msg]

Record(r, result) == results' = [results EXCEPT ![r] = Append(@, result)]

(* ------------------------------- actions ------------------------------- *)

\* A request arrives at POST /api/summarize.
Receive(r) ==
    /\ pc[r] = "idle"
    /\ \E h \in Headers, b \in Bodies :
          /\ hdr' = [hdr EXCEPT ![r] = h]
          /\ body' = [body EXCEPT ![r] = b]
    /\ pc' = [pc EXCEPT ![r] = "checkJwt"]
    /\ UNCHANGED <<clientVars, env, zodQuoted, auth, parsed, calls, results, responses>>

\* CheckJwtJose behind a validation step: the body is parsed first and an
\* invalid one is answered before the token is looked at.
CheckJwtJoseValidateFirst(r) ==
    /\ pc[r] = "checkJwt"
    /\ parsed' = [parsed EXCEPT ![r] = TRUE]
    /\ IF ZodIssues(body[r]) # {}
       THEN /\ Send(r, OuterCatchResponse(ZodMessage(ZodIssues(body[r]))))
            /\ pc' = [pc EXCEPT ![r] = "done"]
       ELSE IF AuthNotConfigured
       THEN /\ Send(r, Unauthorized("Auth not configured on server (missing AUTH0_* envs)."))
            /\ pc' = [pc EXCEPT ![r] = "done"]
       ELSE IF BearerRejected(AuthHeader(r))
       THEN /\ Send(r, Unauthorized("Missing Bearer token"))
            /\ pc' = [pc EXCEPT ![r] = "done"]
       ELSE /\ pc' = [pc EXCEPT ![r] = "jwtVerify"]
            /\ UNCHANGED responses
    /\ UNCHANGED <<clientVars, env, zodQuoted, hdr, body, auth, calls, results>>

\* CheckJwtJose without the `return` in front of unauthorized(...): the 401
\* is sent and the middleware goes on to jwtVerify.
CheckJwtJoseNoReturn(r) ==
    /\ pc[r] = "checkJwt"
    /\ IF AuthNotConfigured
       THEN /\ Send(r, Unauthorized("Auth not configured on server (missing AUTH0_* envs)."))
            /\ pc' = [pc EXCEPT ![r] = "done"]
       ELSE IF BearerRejected(AuthHeader(r))
       THEN /\ Send(r, Unauthorized("Missing Bearer token"))
            /\ pc' = [pc EXCEPT ![r] = "jwtVerify"]
       ELSE /\ pc' = [pc EXCEPT ![r] = "jwtVerify"]
            /\ UNCHANGED responses
    /\ UNCHANGED <<clientVars, env, zodQuoted, hdr, body, auth, parsed, calls, results>>

\* checkJwtJose up to its await
CheckJwtJose(r) ==
    /\ pc[r] = "checkJwt"
    /\ IF AuthNotConfigured
       THEN /\ Send(r, Unauthorized("Auth not configured on server (missing AUTH0_* envs)."))
            /\ pc' = [pc EXCEPT ![r] = "done"]
       ELSE IF BearerRejected(AuthHeader(r))
       THEN /\ Send(r, Unauthorized("Missing Bearer token"))
            /\ pc' = [pc EXCEPT ![r] = "done"]
       ELSE /\ pc' = [pc EXCEPT ![r] = "jwtVerify"]
            /\ UNCHANGED responses
    /\ UNCHANGED <<clientVars, env, zodQuoted, hdr, body, auth, parsed, calls, results>>

\* JwtVerifyResolve keeping the verified claims in one module-level variable
\* instead of on the request.
JwtVerifyResolveGlobalAuth(r) ==
    /\ pc[r] = "jwtVerify"
    /\ Token(AuthHeader(r)) = Good
    /\ auth' = [q \in DOMAIN auth |-> "payload"]
    /\ parsed' = [parsed EXCEPT ![r] = TRUE]
    /\ HandlerStart(r)
    /\ UNCHANGED <<clientVars, env, zodQuoted, hdr, body, results>>

\* jwtVerify resolves: req.auth = payload; next() runs the handler to its
\* first await.
JwtVerifyResolve(r) ==
    /\ pc[r] = "jwtVerify"
    /\ Token(AuthHeader(r)) = Good
    /\ auth' = [auth EXCEPT ![r] = "payload"]
    /\ parsed' = [parsed EXCEPT ![r] = TRUE]
    /\ HandlerStart(r)
    /\ UNCHANGED <<clientVars, env, zodQuoted, hdr, body, results>>

\* jwtVerify rejects (a bad token, or the key set cannot be fetched):
\* catch (e) { return unauthorized(res, String(e?.message || e)) }
JwtVerifyReject(r) ==
    /\ pc[r] = "jwtVerify"
    /\ \E msg \in JwtErrors :
          /\ Token(AuthHeader(r)) = Good => msg = "fetch failed"
          /\ Send(r, Unauthorized(msg))
    /\ pc' = [pc EXCEPT ![r] = "done"]
    /\ UNCHANGED <<clientVars, env, zodQuoted, hdr, body, auth, parsed, calls, results>>

\* GeminiReturn without the `if (summary)` test: whatever came back is sent.
GeminiReturnUnchecked(r) ==
    /\ pc[r] = "gemini"
    /\ \E text \in Strings :
          /\ Record(r, Returned("gemini", TRUE, text))
          /\ Send(r, GeminiSuccess(Trim(text)))
          /\ pc' = [pc EXCEPT ![r] = "done"]
          /\ UNCHANGED calls
    /\ UNCHANGED <<clientVars, env, zodQuoted, hdr, body, auth, parsed>>

\* GeminiReturn without the `return` in front of res.json: the handler sends
\* the Gemini summary and carries on into the OpenAI block.
GeminiReturnNoReturn(r) ==
    /\ pc[r] = "gemini"
    /\ \E text \in Strings :
          /\ Record(r, Returned("gemini", TRUE, text))
          /\ IF Trim(text) # <<>> /\ env.OPENAI_API_KEY # ""
             THEN /\ Send(r, GeminiSuccess(Trim(text)))
                  /\ Invoke(r, "openai", OPENAI_MODEL)
                  /\ pc' = [pc EXCEPT ![r] = "openai"]
             ELSE IF Trim(text) # <<>>
             THEN /\ responses' = [responses EXCEPT ![r] =
                        @ \o <<GeminiSuccess(Trim(text)), DemoResponse(body[r])>>]
                  /\ pc' = [pc EXCEPT ![r] = "done"]
                  /\ UNCHANGED calls
             ELSE OpenAIBlock(r)
    /\ UNCHANGED <<clientVars, env, zodQuoted, hdr, body, auth, parsed>>

\* model.generateContent resolves with some text
GeminiReturn(r) ==
    /\ pc[r] = "gemini"
    /\ \E text \in Strings :
          /\ Record(r, Returned("gemini", TRUE, text))
          /\ IF Trim(text) # <<>>
             THEN /\ Send(r, GeminiSuccess(Trim(text)))
                  /\ pc' = [pc EXCEPT ![r] = "done"]
                  /\ UNCHANGED calls
             ELSE OpenAIBlock(r)
    /\ UNCHANGED <<clientVars, env, zodQuoted, hdr, body, auth, parsed>>

\* GeminiThrow with a catch that gives up on the providers: straight to demo.
GeminiThrowToDemo(r) ==
    /\ pc[r] = "gemini"
    /\ \E msg \in ErrorMessages : Record(r, Threw("gemini", msg))
    /\ DemoBlock(r)
    /\ UNCHANGED <<clientVars, env, zodQuoted, hdr, body, auth, parsed>>

\* GeminiThrow with a catch that answers 429 itself on a quota error, whether
\* or not OpenAI is still to be tried.
GeminiThrowQuota429(r) ==
    /\ pc[r] = "gemini"
    /\ \E msg \in ErrorMessages :
          /\ Record(r, Threw("gemini", msg))
          /\ IF Includes(msg, QuotaPhrase)
             THEN /\ Send(r, [status |-> 429,
                              body |-> [error |-> "Gemini quota exceeded.",
                                        provider |-> "gemini"]])
                  /\ pc' = [pc EXCEPT ![r] = "done"]
                  /\ UNCHANGED calls
             ELSE OpenAIBlock(r)
    /\ UNCHANGED <<clientVars, env, zodQuoted, hdr, body, auth, parsed>>

\* the Gemini block throws: catch (gerr) { console.error(...) }
GeminiThrow(r) ==
    /\ pc[r] = "gemini"
    /\ \E msg \in ErrorMessages : Record(r, Threw("gemini", msg))
    /\ OpenAIBlock(r)
    /\ UNCHANGED <<clientVars, env, zodQuoted, hdr, body, auth, parsed>>

\* openai.chat.completions.create resolves; the content may be missing
OpenAIReturn(r) ==
    /\ pc[r] = "openai"
    /\ \E hasContent \in BOOLEAN, text \in Strings :
          /\ ~hasContent => text = <<>>
          /\ Record(r, Returned("openai", hasContent, text))
          /\ LET summary == IF hasContent THEN Trim(text) ELSE <<>>
             IN  IF summary # <<>>
                 THEN /\ Send(r, OpenAISuccess(summary))
                      /\ pc' = [pc EXCEPT ![r] = "done"]
                      /\ UNCHANGED calls
                 ELSE OpenAICatch(r, {"OpenAI returned an empty response."})
    /\ UNCHANGED <<clientVars, env, zodQuoted, hdr, body, auth, parsed>>

\* the OpenAI call throws
OpenAIThrow(r) ==
    /\ pc[r] = "openai"
    /\ \E msg \in ErrorMessages :
          /\ Record(r, Threw("openai", msg))
          /\ OpenAICatch(r, msg)
    /\ UNCHANGED <<clientVars, env, zodQuoted, hdr, body, auth, parsed>>

(* ---------------------------- specification ---------------------------- *)

\* A text of the page: blanks around a core; trim() leaves the core.
EmptyText == [blanks |-> 0, core |-> 0]

\* No page is open: the server is looked at on its own.
PageNotLoaded ==
    /\ mounted = FALSE
    /\ textarea = EmptyText
    /\ shownSummary = ""
    /\ loading = FALSE
    /\ shownError = ""
    /\ isAuthenticated = FALSE
    /\ authLoading = FALSE
    /\ lsText = EmptyText
    /\ lsResume = ""
    /\ apiBase = ""
    /\ tasks = <<>>
    /\ posts = {}

NoHeader == [present |-> FALSE, value |-> <<>>]

NoBody == [isObject |-> FALSE, type |-> "undefined", length |-> 0]

Init ==
    /\ env \in Envs
    /\ zodQuoted \in BOOLEAN
    /\ pc = [r \in Requests |-> "idle"]
    /\ hdr = [r \in Requests |-> NoHeader]
    /\ body = [r \in Requests |-> NoBody]
    /\ auth = [r \in Requests |-> "none"]
    /\ parsed = [r \in Requests |-> FALSE]
    /\ calls = [r \in Requests |-> <<>>]
    /\ results = [r \in Requests |-> <<>>]
    /\ responses = [r \in Requests |-> <<>>]
    /\ PageNotLoaded

Next ==
    \E r \in Requests :
        \/ Receive(r)
        \/ CheckJwtJose(r)
        \/ JwtVerifyResolve(r)
        \/ JwtVerifyReject(r)
        \/ GeminiReturn(r)
        \/ GeminiThrow(r)
        \/ OpenAIReturn(r)
        \/ OpenAIThrow(r)

Spec == Init /\ [][Next]_vars


\* Two requests in flight at once, their steps interleaving freely.
PairRequests == {"r1", "r2"}

InitPair ==
    /\ env \in Envs
    /\ zodQuoted \in BOOLEAN
    /\ pc = [r \in PairRequests |-> "idle"]
    /\ hdr = [r \in PairRequests |-> NoHeader]
    /\ body = [r \in PairRequests |-> NoBody]
    /\ auth = [r \in PairRequests |-> "none"]
    /\ parsed = [r \in PairRequests |-> FALSE]
    /\ calls = [r \in PairRequests |-> <<>>]
    /\ results = [r \in PairRequests |-> <<>>]
    /\ responses = [r \in PairRequests |-> <<>>]
    /\ PageNotLoaded

\* The requests the pair is drawn from: every class of header and of body.
PairHeaders ==
    { NoHeader,
      [present |-> TRUE, value |-> <<"Bearer">>],
      [present |-> TRUE, value |-> <<"Basic", " ", Good>>],
      [present |-> TRUE, value |-> <<"Bearer", " ", Good>>],
      [present |-> TRUE, value |-> <<"Bearer", " ", Bad>>] }

PairBodies ==
    { [isObject |-> TRUE, type |-> "string", length |-> 0],
      [isObject |-> TRUE, type |-> "string", length |-> 5],
      [isObject |-> TRUE, type |-> "string", length |-> MaxChars] }

ReceivePair(r) ==
    /\ pc[r] = "idle"
    /\ \E h \in PairHeaders, b \in PairBodies :
          /\ hdr' = [hdr EXCEPT ![r] = h]
          /\ body' = [body EXCEPT ![r] = b]
    /\ pc' = [pc EXCEPT ![r] = "checkJwt"]
    /\ UNCHANGED <<clientVars, env, zodQuoted, auth, parsed, calls, results, responses>>

NextPair ==
    \E r \in PairRequests :
        \/ ReceivePair(r)
        \/ CheckJwtJose(r)
        \/ JwtVerifyResolve(r)
        \/ JwtVerifyReject(r)
        \/ GeminiReturn(r)
        \/ GeminiThrow(r)
        \/ OpenAIReturn(r)
        \/ OpenAIThrow(r)

SpecPair == InitPair /\ [][NextPair]_vars

\* Every pending await settles: the middleware runs, jwtVerify resolves or
\* rejects, and each provider call returns or throws.
Fairness ==
    \A r \in Requests :
        /\ WF_vars(CheckJwtJose(r))
        /\ WF_vars(JwtVerifyResolve(r) \/ JwtVerifyReject(r))
        /\ WF_vars(GeminiReturn(r) \/ GeminiThrow(r))
        /\ WF_vars(OpenAIReturn(r) \/ OpenAIThrow(r))

SpecLive == Spec /\ Fairness

(* ------------------------------ the page ------------------------------ *)
\* frontend/app/page.tsx with Auth0: the textarea, the Summarize button, the
\* two mount effects and the doSummarize calls they start.  A step is one
\* event handler, one effect run, or the continuation of one await.

\* The texts the user can have in the textarea.
PageTexts == {[blanks |-> b, core |-> c] : b \in {0, 1}, c \in {0, 1, MAX_CHARS, MAX_CHARS + 1}}

\* text.length
Length(t) == t.blanks + t.core

\* text.trim()
TrimText(t) == [blanks |-> 0, core |-> t.core]

\* a string used as a condition: "" is falsy
Truthy(t) == Length(t) > 0

\* const tooLong = chars > MAX_CHARS
TooLong == Length(textarea) > MAX_CHARS

\* disabled={!text.trim() || loading || tooLong}
ButtonDisabled == ~Truthy(TrimText(textarea)) \/ loading \/ TooLong

\* The page leaves for Auth0: the document and every pending call are gone.
LeavePage ==
    /\ mounted' = FALSE
    /\ textarea' = EmptyText
    /\ shownSummary' = ""
    /\ loading' = FALSE
    /\ shownError' = ""
    /\ isAuthenticated' = FALSE
    /\ authLoading' = FALSE
    /\ tasks' = <<>>

\* tasks without its i-th element
Without(i) == SubSeq(tasks, 1, i - 1) \o SubSeq(tasks, i + 1, Len(tasks))

\* doSummarize(trimmed) up to `await getApiToken()`; source is the text of the
\* render the call was made from, via the entry point that made it.
DoSummarizeStart(trimmed, source, via) ==
    IF apiBase = ""
    THEN /\ shownError' = "Missing NEXT_PUBLIC_API_BASE in .env.local"
         /\ UNCHANGED <<loading, shownSummary, tasks>>
    ELSE /\ loading' = TRUE
         /\ shownSummary' = ""
         /\ shownError' = ""
         /\ tasks' = Append(tasks, [at |-> "getApiToken", trimmed |-> trimmed,
                                    text |-> source, via |-> via])

\* catch (err) { setError(...) } finally { setLoading(false) }  of doSummarize
DoSummarizeFails(i, message) ==
    /\ shownError' = message
    /\ loading' = FALSE
    /\ tasks' = Without(i)
    /\ UNCHANGED shownSummary

\* The page is opened (first visit, or back from Auth0): fresh state, and the
\* restore effect puts the saved text back.  The auto-resume effect runs too,
\* with isAuthenticated still false.
PageLoad ==
    /\ ~mounted
    /\ mounted' = TRUE
    /\ textarea' = (IF Truthy(lsText) THEN lsText ELSE EmptyText)
    /\ shownSummary' = ""
    /\ loading' = FALSE
    /\ shownError' = ""
    /\ isAuthenticated' = FALSE
    /\ authLoading' = TRUE
    /\ tasks' = <<>>
    /\ UNCHANGED <<serverVars, lsText, lsResume, apiBase, posts>>

\* Auth0 finishes loading; when isAuthenticated turns true the auto-resume
\* effect runs.
AuthResolved ==
    /\ mounted
    /\ authLoading
    /\ authLoading' = FALSE
    /\ \E authenticated \in BOOLEAN :
          /\ isAuthenticated' = authenticated
          /\ IF authenticated /\ lsResume = "1" /\ Truthy(TrimText(textarea))
             THEN /\ lsResume' = ""
                  /\ DoSummarizeStart(TrimText(textarea), textarea, "auto")
             ELSE UNCHANGED <<lsResume, shownError, loading, shownSummary, tasks>>
    /\ UNCHANGED <<serverVars, mounted, textarea, lsText, apiBase, posts>>

\* onChange of the textarea
Type ==
    /\ mounted
    /\ \E t \in PageTexts :
          /\ textarea' = t
          /\ lsText' = t
    /\ UNCHANGED <<serverVars, mounted, shownSummary, loading, shownError, isAuthenticated,
                   authLoading, lsResume, apiBase, tasks, posts>>

\* The Summarize button is clicked: handleSummarize
HandleSummarize ==
    /\ mounted
    /\ ~ButtonDisabled
    /\ LET trimmed == TrimText(textarea)
       IN  IF ~Truthy(trimmed)
           THEN UNCHANGED <<shownError, loading, shownSummary, tasks>>
           ELSE IF Length(trimmed) > MAX_CHARS
           THEN /\ shownError' = "Input is too long"
                /\ UNCHANGED <<loading, shownSummary, tasks>>
           ELSE DoSummarizeStart(trimmed, textarea, "manual")
    /\ UNCHANGED <<serverVars, mounted, textarea, isAuthenticated, authLoading, lsText,
                   lsResume, apiBase, posts>>

\* The Login button is clicked: loginWithRedirect
LoginClick ==
    /\ mounted
    /\ ~authLoading
    /\ ~isAuthenticated
    /\ LeavePage
    /\ UNCHANGED <<serverVars, lsText, lsResume, apiBase, posts>>

\* The Logout button is clicked: logout
LogoutClick ==
    /\ mounted
    /\ ~authLoading
    /\ isAuthenticated
    /\ LeavePage
    /\ UNCHANGED <<serverVars, lsText, lsResume, apiBase, posts>>

\* getAccessTokenSilently resolves; with a token the POST is sent.
TokenResolve(i) ==
    /\ mounted
    /\ i \in 1..Len(tasks)
    /\ tasks[i].at = "getApiToken"
    /\ \E token \in {"", "access-token"} :
          IF token = ""
          THEN /\ DoSummarizeFails(i, "No access token")
               /\ UNCHANGED posts
          ELSE /\ tasks' = [tasks EXCEPT ![i].at = "fetch"]
               /\ posts' = posts \cup {[via |-> tasks[i].via, text |-> tasks[i].trimmed]}
               /\ UNCHANGED <<shownError, loading, shownSummary>>
    /\ UNCHANGED <<serverVars, mounted, textarea, isAuthenticated, authLoading, lsText,
                   lsResume, apiBase>>

\* The codes on which getApiToken sends the user to Auth0.
InteractionCodes == {"login_required", "consent_required", "interaction_required"}

\* The codes getAccessTokenSilently rejects with.
TokenErrorCodes == {"login_required", "consent_required", "interaction_required", "timeout"}

\* getAccessTokenSilently rejects: on a code that needs the user the resume
\* flag and the text are saved and the page leaves for Auth0.
TokenRejectWith(i, code) ==
    /\ mounted
    /\ i \in 1..Len(tasks)
    /\ tasks[i].at = "getApiToken"
    /\ IF code \in InteractionCodes
       THEN /\ lsResume' = "1"
            /\ lsText' = tasks[i].text
            /\ LeavePage
       ELSE /\ DoSummarizeFails(i, "token error")
            /\ UNCHANGED <<mounted, textarea, isAuthenticated, authLoading, lsText, lsResume>>
    /\ UNCHANGED <<serverVars, apiBase, posts>>

TokenReject(i) == \E code \in TokenErrorCodes : TokenRejectWith(i, code)

\* What the server answers, as far as the page reads it.
Answers ==
    { [ok |-> TRUE, summary |-> "five bullet points", message |-> ""],
      [ok |-> TRUE, summary |-> "", message |-> ""],
      [ok |-> FALSE, summary |-> "", message |-> "Missing Bearer token"],
      [ok |-> FALSE, summary |-> "", message |-> "Request failed (500)"] }

\* fetch and res.json() resolve
FetchResolve(i) ==
    /\ mounted
    /\ i \in 1..Len(tasks)
    /\ tasks[i].at = "fetch"
    /\ \E answer \in Answers :
          IF ~answer.ok
          THEN DoSummarizeFails(i, answer.message)
          ELSE /\ shownSummary' = answer.summary
               /\ loading' = FALSE
               /\ tasks' = Without(i)
               /\ UNCHANGED shownError
    /\ UNCHANGED <<serverVars, mounted, textarea, isAuthenticated, authLoading, lsText,
                   lsResume, apiBase, posts>>

\* fetch rejects (the network is down)
FetchReject(i) ==
    /\ mounted
    /\ i \in 1..Len(tasks)
    /\ tasks[i].at = "fetch"
    /\ DoSummarizeFails(i, "Failed to fetch")
    /\ UNCHANGED <<serverVars, mounted, textarea, isAuthenticated, authLoading, lsText,
                   lsResume, apiBase, posts>>

\* No request is being served: the page is looked at on its own.
ServerNotRunning ==
    /\ env = [AUTH0_DOMAIN |-> "", AUTH0_AUDIENCE |-> "", GEMINI_API_KEY |-> "",
              OPENAI_API_KEY |-> "", GEMINI_MODEL |-> ""]
    /\ zodQuoted = FALSE
    /\ pc = [r \in Requests |-> "idle"]
    /\ hdr = [r \in Requests |-> NoHeader]
    /\ body = [r \in Requests |-> NoBody]
    /\ auth = [r \in Requests |-> "none"]
    /\ parsed = [r \in Requests |-> FALSE]
    /\ calls = [r \in Requests |-> <<>>]
    /\ results = [r \in Requests |-> <<>>]
    /\ responses = [r \in Requests |-> <<>>]

\* The first visit: nothing saved, Auth0 loading.
InitClient ==
    /\ ServerNotRunning
    /\ mounted = TRUE
    /\ textarea = EmptyText
    /\ shownSummary = ""
    /\ loading = FALSE
    /\ shownError = ""
    /\ isAuthenticated = FALSE
    /\ authLoading = TRUE
    /\ lsText = EmptyText
    /\ lsResume = ""
    /\ apiBase \in {"", "http://localhost:4000/api"}
    /\ tasks = <<>>
    /\ posts = {}

\* The calls that can be in flight at once in the model.
TaskSlots == 1..3

NextClient ==
    \/ PageLoad
    \/ AuthResolved
    \/ Type
    \/ HandleSummarize
    \/ LoginClick
    \/ LogoutClick
    \/ \E i \in TaskSlots :
          \/ TokenResolve(i)
          \/ TokenReject(i)
          \/ FetchResolve(i)
          \/ FetchReject(i)

SpecClient == InitClient /\ [][NextClient]_vars

(* ------------------------- vocabulary of the claims -------------------- *)

IsDone(r) == pc[r] = "done"

\* The header as sent, read without the middleware's own parsing.
HeaderMissing(r) == ~hdr[r].present \/ hdr[r].value = <<>>

SchemeIsBearer(r) ==
    /\ hdr[r].present
    /\ hdr[r].value # <<>>
    /\ hdr[r].value[1] \in {"Bearer", "bearer", "BEARER"}

TokenSent(r) ==
    IF hdr[r].present /\ Len(hdr[r].value) >= 3 /\ hdr[r].value[2] = " "
    THEN (IF hdr[r].value[3] = " " THEN "" ELSE hdr[r].value[3])
    ELSE ""

AuthConfigured == env.AUTH0_DOMAIN # "" /\ env.AUTH0_AUDIENCE # ""

\* The body as sent: a text of 1..20000 characters
TextValid(r) ==
    /\ body[r].isObject
    /\ body[r].type = "string"
    /\ body[r].length >= 1
    /\ body[r].length <= 20000

NonBlank(s) == \E i \in 1..Len(s) : s[i] # " "

\* An adapter result that is a non-empty summary / a failure / a quota failure
Succeeded(res) == res.kind = "return" /\ res.hasContent /\ NonBlank(res.text)

Failed(res) == ~Succeeded(res)

QuotaFailure(res) == res.kind = "throw" /\ QuotaPhrase \in res.message

Adapters(r) == [i \in 1..Len(calls[r]) |-> calls[r][i].adapter]

GeminiConfigured == env.GEMINI_API_KEY # ""

OpenAIConfigured == env.OPENAI_API_KEY # ""

PrimaryModel == IF env.GEMINI_MODEL = "" THEN "gemini-2.0-flash" ELSE env.GEMINI_MODEL

OnlyResponse(r) == responses[r][1]

HasField(resp, field) == field \in DOMAIN resp.body

(* -------------------------------- claims ------------------------------- *)

\* The requests C1 is about.
C1_Unauthenticated(r) ==
    \/ HeaderMissing(r)
    \/ ~SchemeIsBearer(r)
    \/ TokenSent(r) = ""
    \/ TokenSent(r) = Bad
    \/ auth[r] # "payload"

\* C1: a request whose Authorization header is missing, has a scheme other
\* than Bearer (in any letter case), has an empty token, or whose token is
\* not verified, never has an adapter invoked for it, and once answered its
\* one response is a 401.
C1_NoAuthNoProvider ==
    \A r \in Requests :
        (pc[r] # "idle" /\ C1_Unauthenticated(r)) =>
            /\ calls[r] = <<>>
            /\ IsDone(r) => (Len(responses[r]) = 1 /\ OnlyResponse(r).status = 401)

C1_Witness ==
    \E r \in Requests :
        /\ IsDone(r)
        /\ AuthConfigured
        /\ hdr[r].value = <<"Basic", " ", Good>>
        /\ TextValid(r)
        /\ GeminiConfigured
        /\ OnlyResponse(r).status = 401

\* C2: with no issuer (AUTH0_DOMAIN) or no audience (AUTH0_AUDIENCE) set,
\* every request, whatever its header and body, is answered 401 with the
\* "auth not configured" detail, and its body is never validated nor any
\* adapter invoked.
C2_FailClosed ==
    \A r \in Requests :
        ~AuthConfigured =>
            /\ ~parsed[r]
            /\ calls[r] = <<>>
            /\ pc[r] \in {"idle", "checkJwt", "done"}
            /\ IsDone(r) =>
                  /\ Len(responses[r]) = 1
                  /\ OnlyResponse(r).status = 401
                  /\ OnlyResponse(r).body.error = "Unauthorized"
                  /\ OnlyResponse(r).body.detail
                        = "Auth not configured on server (missing AUTH0_* envs)."

C2_Witness ==
    \E r \in Requests :
        /\ IsDone(r)
        /\ env.AUTH0_DOMAIN # ""
        /\ env.AUTH0_AUDIENCE = ""
        /\ hdr[r].value = <<"Bearer", " ", Good>>
        /\ TextValid(r)
        /\ OnlyResponse(r).status = 401

\* The model each adapter is asked for.
C3_ModelOf(adapter) == IF adapter = "gemini" THEN PrimaryModel ELSE "gpt-4o-mini"

\* C3: when an adapter returns a non-empty summary, the request is answered
\* at once with a 200 carrying that summary, that adapter's provider name and
\* its model, and no adapter after it is invoked.
C3_ShortCircuit ==
    \A r \in Requests :
        \A i \in 1..Len(results[r]) :
            Succeeded(results[r][i]) =>
                /\ IsDone(r)
                /\ i = Len(results[r])
                /\ Len(calls[r]) = i
                /\ calls[r][i].adapter = results[r][i].adapter
                /\ Len(responses[r]) = 1
                /\ OnlyResponse(r).status = 200
                /\ OnlyResponse(r).body.provider = results[r][i].adapter
                /\ HasField(OnlyResponse(r), "model")
                /\ OnlyResponse(r).body.model = C3_ModelOf(results[r][i].adapter)
                /\ NonBlank(OnlyResponse(r).body.summary)

C3_Witness ==
    \E r \in Requests :
        /\ IsDone(r)
        /\ GeminiConfigured
        /\ OpenAIConfigured
        /\ Len(results[r]) = 1
        /\ Succeeded(results[r][1])
        /\ results[r][1].adapter = "gemini"
        /\ OnlyResponse(r).body.provider = "gemini"

\* C4: when Gemini fails for a cause other than quota and OpenAI is
\* configured, OpenAI is invoked next, once, after Gemini's single call; and
\* if OpenAI then returns a non-empty summary the response is tagged openai.
C4_Fallthrough ==
    \A r \in Requests :
        ( /\ Len(results[r]) >= 1
          /\ results[r][1].adapter = "gemini"
          /\ Failed(results[r][1])
          /\ ~QuotaFailure(results[r][1])
          /\ OpenAIConfigured ) =>
            /\ Adapters(r) = <<"gemini", "openai">>
            /\ (Len(results[r]) = 2 /\ Succeeded(results[r][2])) =>
                  /\ IsDone(r)
                  /\ Len(responses[r]) = 1
                  /\ OnlyResponse(r).status = 200
                  /\ OnlyResponse(r).body.provider = "openai"
                  /\ OnlyResponse(r).body.model = "gpt-4o-mini"

C4_Witness ==
    \E r \in Requests :
        /\ IsDone(r)
        /\ Len(results[r]) = 2
        /\ results[r][1].kind = "throw"
        /\ results[r][1].message = {"ListModels", "404 Not Found"}
        /\ Succeeded(results[r][2])
        /\ OnlyResponse(r).body.provider = "openai"


\* The one configured adapter, if exactly one is.
C5_SoleAdapter(r) ==
    IF GeminiConfigured /\ ~OpenAIConfigured THEN "gemini"
    ELSE IF OpenAIConfigured /\ ~GeminiConfigured THEN "openai"
    ELSE "none"

\* C5: when the only configured adapter fails with quota exhaustion, the
\* response is the 429 quota error and not the demo fallback, whether that
\* adapter is Gemini or OpenAI.
C5_SoleQuotaIs429 ==
    \A r \in Requests :
        ( /\ IsDone(r)
          /\ C5_SoleAdapter(r) # "none"
          /\ Len(results[r]) = 1
          /\ results[r][1].adapter = C5_SoleAdapter(r)
          /\ QuotaFailure(results[r][1]) ) =>
            /\ Len(responses[r]) = 1
            /\ OnlyResponse(r).status = 429
            /\ OnlyResponse(r).body.provider # "demo"

\* The last adapter tried failed on quota: no fallback remained.
C6_LastFailedOnQuota(r) ==
    /\ results[r] # <<>>
    /\ QuotaFailure(results[r][Len(results[r])])

C6_Configured ==
    (IF GeminiConfigured THEN <<"gemini">> ELSE <<>>)
        \o (IF OpenAIConfigured THEN <<"openai">> ELSE <<>>)

C6_AllFailed(r) ==
    /\ Len(results[r]) = Len(C6_Configured)
    /\ \A i \in 1..Len(results[r]) :
          /\ results[r][i].adapter = C6_Configured[i]
          /\ Failed(results[r][i])

C6_Contains(summary, r) ==
    /\ \E i \in 1..Len(summary) : summary[i] = PrimaryModel
    /\ \E i \in 1..(Len(summary) - 2) :
          /\ summary[i] = "Input length: "
          /\ summary[i + 1] = ToString(body[r].length)
          /\ summary[i + 2] = " chars"

\* C6: for an authenticated, valid request, when every configured adapter
\* has failed (or none is configured) and the last configured adapter did not
\* fail on quota, the response is a 200 with provider "demo" whose summary
\* names the primary model and the exact length of the text as received.
C6_DemoOnExhaustion ==
    \A r \in Requests :
        ( /\ auth[r] = "payload"
          /\ TextValid(r)
          /\ C6_AllFailed(r)
          /\ ~C6_LastFailedOnQuota(r) ) =>
            /\ IsDone(r)
            /\ Len(responses[r]) = 1
            /\ OnlyResponse(r).status = 200
            /\ OnlyResponse(r).body.provider = "demo"
            /\ C6_Contains(OnlyResponse(r).body.summary, r)

C6_Witness ==
    \E r \in Requests :
        /\ IsDone(r)
        /\ env.GEMINI_MODEL # ""
        /\ body[r].length = 20000
        /\ Len(results[r]) = 2
        /\ Failed(results[r][1])
        /\ Failed(results[r][2])
        /\ OnlyResponse(r).body.provider = "demo"

\* The request got past validation: an adapter was invoked or the demo answered.
C7_ReachedChain(r) ==
    \/ calls[r] # <<>>
    \/ (Len(responses[r]) = 1 /\ HasField(OnlyResponse(r), "provider")
        /\ OnlyResponse(r).body.provider = "demo")

\* C7: for an authenticated request, a text of 1..20000 characters passes
\* validation and reaches the provider chain, and a missing, non-string,
\* empty or over-long text is answered with the 400 validation error.
C7_ValidationBoundary ==
    \A r \in Requests :
        (IsDone(r) /\ auth[r] = "payload") =>
            IF TextValid(r)
            THEN C7_ReachedChain(r)
            ELSE /\ Len(responses[r]) = 1
                 /\ OnlyResponse(r).status = 400
                 /\ calls[r] = <<>>

\* C8: a Gemini failure that reports an unknown model ("ListModels",
\* "404 Not Found") is answered with the 400 "Gemini model unavailable" error.
C8_MisconfigIs400 ==
    \A r \in Requests :
        ( /\ IsDone(r)
          /\ results[r] # <<>>
          /\ results[r][1].adapter = "gemini"
          /\ results[r][1].kind = "throw"
          /\ "ListModels" \in results[r][1].message ) =>
            /\ Len(responses[r]) = 1
            /\ OnlyResponse(r).status = 400
            /\ OnlyResponse(r).body.provider = "gemini"

\* C9: every request gets exactly one response: none while the middleware or
\* the handler is still running, one and only one once it has finished.
C9_ExactlyOneResponse ==
    \A r \in Requests :
        /\ Len(responses[r]) = (IF IsDone(r) THEN 1 ELSE 0)
        /\ IsDone(r) =>
              (HasField(OnlyResponse(r), "summary") <=> ~HasField(OnlyResponse(r), "error"))

C9_Witness ==
    \E r \in Requests :
        /\ IsDone(r)
        /\ Len(results[r]) = 2
        /\ QuotaFailure(results[r][2])
        /\ Len(responses[r]) = 1
        /\ OnlyResponse(r).status = 429

\* C10 as stated: every response, on every path, carries a provider tag.
C10_EveryResponseTagged ==
    \A r \in Requests :
        \A i \in 1..Len(responses[r]) : HasField(responses[r][i], "provider")

\* The path that answered a request that got through validation.
C10_AnsweredBy(r) ==
    IF results[r] # <<>> /\ Succeeded(results[r][Len(results[r])])
    THEN results[r][Len(results[r])].adapter
    ELSE IF C6_LastFailedOnQuota(r) /\ results[r][Len(results[r])].adapter = "openai"
    THEN "openai"
    ELSE "demo"

\* C10 as amended: every 200 response and every 429 response carries a
\* provider tag naming the path that answered (the adapter that returned the
\* summary, "demo" for the placeholder, "openai" for the quota error); the
\* 401, the validation 400 and the 500 responses carry none.
C10_SuccessAndQuotaTagged ==
    \A r \in Requests :
        \A i \in 1..Len(responses[r]) :
            LET resp == responses[r][i]
            IN  IF resp.status \in {200, 429}
                THEN /\ HasField(resp, "provider")
                     /\ resp.body.provider = C10_AnsweredBy(r)
                ELSE /\ resp.status \in {400, 401, 500}
                     /\ ~HasField(resp, "provider")

C10_Witness ==
    \E r \in Requests :
        /\ IsDone(r)
        /\ ~GeminiConfigured
        /\ ~OpenAIConfigured
        /\ OnlyResponse(r).status = 200
        /\ OnlyResponse(r).body.provider = "demo"

\* C11: every 200 response, the demo response included, holds a non-empty
\* summary, a provider and a model.
C11_SuccessShape ==
    \A r \in Requests :
        \A i \in 1..Len(responses[r]) :
            responses[r][i].status = 200 =>
                /\ HasField(responses[r][i], "summary")
                /\ NonBlank(responses[r][i].body.summary)
                /\ HasField(responses[r][i], "provider")
                /\ HasField(responses[r][i], "model")

\* C14: a quota failure of Gemini while OpenAI is configured does not end the
\* request: OpenAI is invoked next; and a 429 is only ever sent when every
\* configured adapter has been tried.
C14_QuotaFallsThrough ==
    \A r \in Requests :
        /\ ( /\ results[r] # <<>>
             /\ results[r][1].adapter = "gemini"
             /\ QuotaFailure(results[r][1])
             /\ OpenAIConfigured ) =>
                /\ Adapters(r) = <<"gemini", "openai">>
                /\ Len(results[r]) = 1 => (pc[r] = "openai" /\ responses[r] = <<>>)
        /\ \A i \in 1..Len(responses[r]) :
              responses[r][i].status = 429 =>
                  /\ Adapters(r) = C6_Configured
                  /\ Len(results[r]) = Len(C6_Configured)

C14_Witness ==
    \E r \in Requests :
        /\ IsDone(r)
        /\ Len(results[r]) = 2
        /\ QuotaFailure(results[r][1])
        /\ Succeeded(results[r][2])
        /\ OnlyResponse(r).status = 200
        /\ OnlyResponse(r).body.provider = "openai"

\* C16: an adapter call that returns empty or blank text counts as a failure
\* of that adapter: no 200 response carries an empty summary, and after such
\* a return the next adapter is invoked or the demo response is sent.
C16_EmptyIsFailure ==
    \A r \in Requests :
        /\ \A i \in 1..Len(responses[r]) :
              responses[r][i].status = 200 =>
                  /\ HasField(responses[r][i], "summary")
                  /\ NonBlank(responses[r][i].body.summary)
        /\ \A i \in 1..Len(results[r]) :
              (results[r][i].kind = "return" /\ ~Succeeded(results[r][i])) =>
                  \/ (Len(calls[r]) > i /\ calls[r][i + 1].adapter # results[r][i].adapter)
                  \/ /\ IsDone(r)
                     /\ i = Len(results[r])
                     /\ Len(responses[r]) = 1
                     /\ OnlyResponse(r).body.provider = "demo"

C16_Witness ==
    \E r \in Requests :
        /\ IsDone(r)
        /\ ~OpenAIConfigured
        /\ Len(results[r]) = 1
        /\ results[r][1].kind = "return"
        /\ results[r][1].text = <<" ">>
        /\ OnlyResponse(r).body.provider = "demo"

\* C17: the token is verified before the body is validated: a request whose
\* bearer token is missing or invalid and whose body is invalid too never has
\* its body parsed, and is answered 401, never 400.
C17_AuthBeforeValidation ==
    \A r \in Requests :
        (pc[r] # "idle" /\ C1_Unauthenticated(r) /\ ~TextValid(r)) =>
            /\ ~parsed[r]
            /\ \A i \in 1..Len(responses[r]) : responses[r][i].status # 400
            /\ IsDone(r) => (Len(responses[r]) = 1 /\ OnlyResponse(r).status = 401)

C17_Witness ==
    \E r \in Requests :
        /\ IsDone(r)
        /\ AuthConfigured
        /\ hdr[r].value = <<"Bearer", " ", Bad>>
        /\ body[r].type = "string"
        /\ body[r].length = 0
        /\ ~parsed[r]
        /\ OnlyResponse(r).status = 401

\* C12: provided every token verification and every adapter call eventually
\* returns or fails, every request that has arrived eventually has its one
\* response; a request that reaches the demo path is answered there.
C12_AlwaysAnswered ==
    \A r \in Requests :
        (pc[r] = "checkJwt") ~> (IsDone(r) /\ Len(responses[r]) = 1)

C12_Witness ==
    \E r \in Requests :
        /\ IsDone(r)
        /\ ~GeminiConfigured
        /\ Len(results[r]) = 1
        /\ results[r][1].kind = "throw"
        /\ results[r][1].message = {}
        /\ Len(responses[r]) = 1
        /\ OnlyResponse(r).body.provider = "demo"

\* C15: within a request the provider calls are sequential: at most one call
\* is in flight, a call is in flight exactly while the handler waits for it,
\* and OpenAI is invoked only once Gemini's call has come back.
C15_InFlight(r) == Len(calls[r]) - Len(results[r])

C15_Sequential ==
    \A r \in Requests :
        /\ C15_InFlight(r) \in {0, 1}
        /\ C15_InFlight(r) = 1 <=> pc[r] \in {"gemini", "openai"}
        /\ \A i \in 1..Len(results[r]) : results[r][i].adapter = calls[r][i].adapter
        /\ Len(calls[r]) = 2 =>
              /\ Adapters(r) = <<"gemini", "openai">>
              /\ Len(results[r]) >= 1

C15_Witness ==
    \E r \in Requests :
        /\ pc[r] = "openai"
        /\ Len(calls[r]) = 2
        /\ Len(results[r]) = 1
        /\ results[r][1].adapter = "gemini"

\* The provider/model tag of a response, "" for a field it does not carry.
TagOf(resp) ==
    [status |-> resp.status,
     provider |-> IF HasField(resp, "provider") THEN resp.body.provider ELSE "",
     model |-> IF HasField(resp, "model") THEN resp.body.model ELSE ""]

\* The adapters behaved the same for both requests: whenever both invoked the
\* same adapter it came back with the same outcome.
SameAdapterBehaviour(r, q) ==
    \A i \in 1..Len(results[r]), j \in 1..Len(results[q]) :
        results[r][i].adapter = results[q][j].adapter => results[r][i] = results[q][j]

\* C13: two requests with the same header and the same text, verified alike,
\* under the one configuration and with adapters that behave the same for
\* both, are answered with the same status and the same provider/model tag.
C13_Idempotent ==
    \A r, q \in DOMAIN pc :
        ( /\ IsDone(r) /\ IsDone(q)
          /\ hdr[r] = hdr[q]
          /\ body[r] = body[q]
          /\ auth[r] = auth[q]
          /\ SameAdapterBehaviour(r, q) ) =>
            /\ Len(responses[r]) = 1
            /\ Len(responses[q]) = 1
            /\ TagOf(OnlyResponse(r)) = TagOf(OnlyResponse(q))

C13_Witness ==
    /\ DOMAIN pc = PairRequests
    /\ IsDone("r1") /\ IsDone("r2")
    /\ hdr["r1"] = hdr["r2"]
    /\ body["r1"] = body["r2"]
    /\ Len(results["r1"]) = 2
    /\ results["r1"] = results["r2"]
    /\ results["r1"][1].kind = "throw"
    /\ Succeeded(results["r1"][2])
    /\ TagOf(OnlyResponse("r1")).provider = "openai"
    /\ TagOf(OnlyResponse("r2")).provider = "openai"

\* The two ways the bearer check can fail before verification.
MissingTokenCase(r) ==
    \/ HeaderMissing(r)
    \/ (SchemeIsBearer(r) /\ TokenSent(r) = "")

MalformedSchemeCase(r) ==
    /\ hdr[r].present
    /\ hdr[r].value # <<>>
    /\ ~SchemeIsBearer(r)

\* C18: when the bearer check fails before verification, the detail of the
\* 401 tells a missing token (no header, or no token after Bearer) from a
\* malformed scheme (a scheme other than Bearer): the two never get the same
\* detail.
C18_DetailDistinguishes ==
    \A r, q \in DOMAIN pc :
        ( /\ AuthConfigured
          /\ IsDone(r) /\ IsDone(q)
          /\ MissingTokenCase(r)
          /\ MalformedSchemeCase(q) ) =>
            /\ OnlyResponse(r).status = 401
            /\ OnlyResponse(q).status = 401
            /\ OnlyResponse(r).body.detail # OnlyResponse(q).body.detail

\* What belongs to one request.
Local(r) ==
    <<pc[r], hdr[r], body[r], auth[r], parsed[r], calls[r], results[r], responses[r]>>

\* A step belongs to one request: it leaves every other request's state, and
\* the configuration, as they were.
C19_StepIsLocal ==
    \E r \in DOMAIN pc :
        /\ \A q \in DOMAIN pc \ {r} : Local(q)' = Local(q)
        /\ env' = env
        /\ zodQuoted' = zodQuoted

\* Two finished requests with the same header, text, verification outcome and
\* adapter outcomes made the same adapter calls and got the same response (a
\* 401 the same but for the detail, which is jwtVerify's own message).
C19_OwnInputsDecide ==
    \A r, q \in DOMAIN pc :
        ( /\ IsDone(r) /\ IsDone(q)
          /\ hdr[r] = hdr[q]
          /\ body[r] = body[q]
          /\ auth[r] = auth[q]
          /\ results[r] = results[q] ) =>
            /\ calls[r] = calls[q]
            /\ Len(responses[r]) = 1
            /\ Len(responses[q]) = 1
            /\ IF auth[r] = "payload"
               THEN responses[r] = responses[q]
               ELSE /\ OnlyResponse(r).status = OnlyResponse(q).status
                    /\ OnlyResponse(r).body.error = OnlyResponse(q).body.error

\* C19: with two requests in flight and their steps interleaved in every
\* order, each step writes the state of one request only and never the
\* configuration, and a request's response is decided by its own header, its
\* own text and the outcomes of its own verification and adapter calls.
C19_Isolation == [][C19_StepIsLocal]_vars /\ []C19_OwnInputsDecide

C19_Witness ==
    /\ DOMAIN pc = PairRequests
    /\ pc["r1"] = "gemini"
    /\ pc["r2"] = "openai"
    /\ Len(results["r2"]) = 1
    /\ body["r1"] # body["r2"]

\* C20: in the authenticated page at most one doSummarize call is in flight,
\* whatever the order of manual submits and the auto-resume effect, and once
\* the calls have finished the page never shows both a non-empty summary and
\* an error.
C20_SingleFlight ==
    isAuthenticated =>
        /\ Len(tasks) <= 1
        /\ (tasks = <<>> => ~(shownSummary # "" /\ shownError # ""))

\* C21: every POST the page sends to /summarize carries a text whose trimmed
\* length is between 1 and 20000, whether the call came from the Summarize
\* button or from the auto-resume effect.
C21_PostBound ==
    \A p \in posts : Length(p.text) >= 1 /\ Length(p.text) <= MAX_CHARS

\* The resume flag is set in this step.
C22_FlagSet == lsResume # "1" /\ lsResume' = "1"

\* The auto-resume effect calls doSummarize in this step.
C22_AutoCall ==
    /\ mounted /\ mounted'
    /\ ~isAuthenticated /\ isAuthenticated'
    /\ IF apiBase = ""
       THEN shownError' = "Missing NEXT_PUBLIC_API_BASE in .env.local"
       ELSE /\ Len(tasks') = Len(tasks) + 1
            /\ tasks'[Len(tasks')].via = "auto"

\* An automatic call is pending or has been started in this step.
C22_AutoStarted ==
    /\ Len(tasks') = Len(tasks) + 1
    /\ tasks'[Len(tasks')].via = "auto"

\* The flag is set only by a token failure that needs the user.
C22_SetOnlyOnInteraction ==
    C22_FlagSet => \E i \in TaskSlots, code \in InteractionCodes : TokenRejectWith(i, code)

\* The flag is gone while a resumed call is in flight.
C22_RemovedBeforeRequest ==
    \A i \in 1..Len(tasks) : tasks[i].via = "auto" => lsResume = ""

\* Every automatic call uses up one setting of the flag.
C22_CallUsesFlag == C22_AutoStarted => (lsResume = "1" /\ lsResume' = "")

\* The flag is set, the saved text in the textarea is non-empty, and the user
\* becomes authenticated in this step.
C22_ResumeDue ==
    /\ mounted /\ mounted'
    /\ ~isAuthenticated /\ isAuthenticated'
    /\ lsResume = "1"
    /\ Truthy(lsText) /\ textarea = lsText

\* As C22_ResumeDue, with a text that is not blank.
C22_ResumeDueNonBlank == C22_ResumeDue /\ Truthy(TrimText(textarea))

\* C22: the resume flag is set only when token acquisition fails with
\* login_required, consent_required or interaction_required; it is removed
\* before the resumed request is issued; each setting of the flag leads to at
\* most one automatic doSummarize call; and when saved non-empty text has been
\* restored and the user becomes authenticated, the call happens and the flag
\* is cleared.
C22_ResumeOnce ==
    /\ [][C22_SetOnlyOnInteraction]_vars
    /\ []C22_RemovedBeforeRequest
    /\ [][C22_CallUsesFlag]_vars
    /\ [][C22_ResumeDue => (C22_AutoCall /\ lsResume' = "")]_vars

====
